---- MODULE Spec2Model ----
(***************************************************************************)
(* Model of src/client.py: MCPClient (connect_to_server,                   *)
(* convert_mcp_tools_to_gemini, execute_tool_call, process_query,          *)
(* chat_loop, cleanup) and main.                                           *)
(*                                                                         *)
(* Strings are sequences of tokens: "" is << >>, concatenation is \o and   *)
(* a newline is the token NL.  The tool session (mcp.ClientSession) and    *)
(* the model API (google.generativeai) are the environment: every call on  *)
(* them is a wait state that the environment leaves by returning a value   *)
(* or by raising.                                                          *)
(***************************************************************************)
EXTENDS Integers, Sequences, FiniteSets, TLC

(* ------------------------------ bounds -------------------------------- *)

\* longest part list of one model response
MaxParts == 2

\* longest tool list given to the schema translator on its own
MaxToolList == 2

(* ------------------------------ strings ------------------------------- *)

NL == "\n"

EmptyStr == << >>

\* "\n".join(strs)
RECURSIVE Join(_)
Join(strs) ==
    IF strs = << >> THEN EmptyStr
    ELSE IF Len(strs) = 1 THEN strs[1]
    ELSE strs[1] \o <<NL>> \o Join(Tail(strs))

\* the literal of line 184 / 187
NoResponse == <<"No response generated">>

\* the literal of line 118
NoContent == <<"Tool executed successfully but returned no content">>

\* f"Error executing tool {tool_name}: {str(e)}"   (line 121)
ToolErrorString(tool_name, msg) == <<"Error executing tool ", tool_name, ": ">> \o msg

\* f"Error: {str(e)}"   (line 191)
ErrorString(msg) == <<"Error: ">> \o msg

(* --------------------------- the environment -------------------------- *)

\* names the server may advertise and the model may call
ToolNames == {"add", "multiply"}

\* the descriptor the server advertises under a name; the schema of "bad" has
\* a 'properties' value that is not a mapping
Descriptor(n) ==
    IF n = "add"
    THEN [name |-> "add", description |-> "adds",
          schema |-> [kind |-> "dict", hasProps |-> TRUE, propsIsDict |-> TRUE,
                      props |-> [p \in {"a"} |->
                                   [isDict |-> TRUE,
                                    fields |-> [k \in {"type", "title"} |->
                                                  IF k = "type" THEN "integer" ELSE "A"]]],
                      hasReq |-> TRUE, req |-> <<"a">>]]
    ELSE IF n = "bad"
    THEN [name |-> "bad", description |-> "malformed",
          schema |-> [kind |-> "dict", hasProps |-> TRUE, propsIsDict |-> FALSE,
                      props |-> [p \in {} |-> [isDict |-> FALSE, fields |-> [k \in {} |-> ""]]],
                      hasReq |-> FALSE, req |-> << >>]]
    ELSE [name |-> n, description |-> "multiplies",
          schema |-> [kind |-> "none", hasProps |-> FALSE, propsIsDict |-> FALSE,
                      props |-> [p \in {} |-> [isDict |-> FALSE, fields |-> [k \in {} |-> ""]]],
                      hasReq |-> FALSE, req |-> << >>]]

Range(s) == {s[i] : i \in 1..Len(s)}

\* the tool lists the server can advertise
ServerToolLists == {<< >>, <<"add">>, <<"add", "multiply">>, <<"bad">>}

\* lines the user types
InputLines == {"quit", " QUIT ", " q1 "}

\* str.strip() and str.lower() on these lines
Strip(line) == IF line = " QUIT " THEN "QUIT" ELSE IF line = " q1 " THEN "q1" ELSE line
Lower(line) == IF line = "QUIT" THEN "quit" ELSE IF line = " QUIT " THEN " quit " ELSE line

\* lines 200-202: the stripped line, and whether it ends the loop
StrippedQuery(line) == Strip(line)
IsQuit(line) == Lower(StrippedQuery(line)) = "quit"

\* the queries process_query is called with
Queries == {StrippedQuery(line) : line \in {l \in InputLines : ~IsQuit(l)}}

\* str(e) of the exceptions the environment raises
ExcMsgs == {<<"boom">>}

\* str(e) of the tool session's failure for a name it does not serve
ToolNotFound == <<"ToolNotFound">>

\* str(e) of the ValueError of the response.text accessor
NoTextMsg == <<"no text in response">>

\* texts of model responses
PartTexts == {<<"p">>}
FollowUpTexts == {EmptyStr, <<"f">>}

\* function_call.args: absent/empty, or a mapping
ArgsValues == {"noargs", "a=2"}

\* the parts a model response can hold: a function call, a text part with a
\* non-empty text, or a part that is neither (empty text, inline data)
PartValues ==
    [kind : {"function_call"}, name : ToolNames, args : ArgsValues, text : {EmptyStr}]
    \cup [kind : {"text"}, name : {""}, args : {"noargs"}, text : PartTexts]
    \cup [kind : {"other"}, name : {""}, args : {"noargs"}, text : {EmptyStr}]

RECURSIVE PartLists(_)
PartLists(n) ==
    IF n = 0 THEN {<< >>}
    ELSE LET shorter == PartLists(n - 1)
         IN  shorter \cup {Append(l, x) : l \in shorter, x \in PartValues}

\* content lists of a successful call_tool result
ContentValues ==
    { << >>,
      <<[kind |-> "data", text |-> EmptyStr, data |-> 7],
        [kind |-> "other", text |-> EmptyStr, data |-> 0],
        [kind |-> "text", text |-> <<"5">>, data |-> 0]>> }

(* ----------------- convert_mcp_tools_to_gemini (56-98) ---------------- *)

\* keys a property schema may hold, and the value held under each
PropKeys == {"type", "description", "enum", "title"}
PropValue(k) ==
    IF k = "type" THEN "integer"
    ELSE IF k = "description" THEN "a number"
    ELSE IF k = "enum" THEN "[1, 2]"
    ELSE "A"

\* property schemas: a value that is not a mapping, or a mapping with any of
\* the keys
PropSchemas ==
    {[isDict |-> FALSE, fields |-> [k \in {} |-> ""]]}
    \cup {[isDict |-> TRUE, fields |-> [k \in K |-> PropValue(k)]] : K \in SUBSET PropKeys}

\* the 'properties' mappings: without a property or with the property "a"
PropertyMaps ==
    {[p \in {} |-> [isDict |-> FALSE, fields |-> [k \in {} |-> ""]]]}
    \cup {[p \in {"a"} |-> ps] : ps \in PropSchemas}

\* input schemas: no attribute, None, {}, a value that is not a mapping, or a
\* mapping with or without 'properties' (a mapping or not) and 'required'
SchemaValues ==
    [kind : {"absent", "none", "empty", "nondict"}, hasProps : {FALSE}, propsIsDict : {FALSE},
     props : {[p \in {} |-> [isDict |-> FALSE, fields |-> [k \in {} |-> ""]]]},
     hasReq : {FALSE}, req : {<< >>}]
    \cup {[kind |-> "dict", hasProps |-> FALSE, propsIsDict |-> FALSE,
           props |-> [p \in {} |-> [isDict |-> FALSE, fields |-> [k \in {} |-> ""]]],
           hasReq |-> r, req |-> IF r THEN <<"a">> ELSE << >>] : r \in BOOLEAN}
    \cup {[kind |-> "dict", hasProps |-> TRUE, propsIsDict |-> FALSE,
           props |-> [p \in {} |-> [isDict |-> FALSE, fields |-> [k \in {} |-> ""]]],
           hasReq |-> r, req |-> IF r THEN <<"a">> ELSE << >>] : r \in BOOLEAN}
    \cup {[kind |-> "dict", hasProps |-> TRUE, propsIsDict |-> TRUE,
           props |-> pm,
           hasReq |-> r, req |-> IF r THEN <<"a">> ELSE << >>] :
              pm \in PropertyMaps, r \in BOOLEAN}

\* the tool descriptors given to the translator
ToolDescriptors == [name : {"add"}, description : {"adds"}, schema : SchemaValues]

RECURSIVE ToolLists(_)
ToolLists(n) ==
    IF n = 0 THEN {<< >>}
    ELSE LET shorter == ToolLists(n - 1)
         IN  shorter \cup {Append(l, x) : l \in shorter, x \in ToolDescriptors}

\* the keys kept per property (lines 82-87)
SupportedKeys == {"type", "description", "enum"}

\* the property schema copied with all its keys
CleanedProp_keepAll(prop_schema) ==
    IF prop_schema.isDict
    THEN prop_schema.fields
    ELSE [k \in {} |-> ""]

\* lines 79-89: the cleaned copy of one property schema
CleanedProp(prop_schema) ==
    IF prop_schema.isDict
    THEN [k \in (DOMAIN prop_schema.fields) \cap SupportedKeys |-> prop_schema.fields[k]]
    ELSE [k \in {} |-> ""]

\* hasattr(tool, 'inputSchema') and tool.inputSchema, and isinstance(schema, dict)
UsableSchema(tool) == tool.schema.kind = "dict"

\* schema["properties"].items() raises when the value is not a mapping
DeclarationRaises(tool) ==
    UsableSchema(tool) /\ tool.schema.hasProps /\ ~tool.schema.propsIsDict

\* the declaration built without the description of the tool
FunctionDeclaration_noDescription(tool) ==
    [name |-> tool.name,
     description |-> "",
     parameters |->
        [type |-> "object",
         properties |->
            IF UsableSchema(tool) /\ tool.schema.hasProps
            THEN [p \in DOMAIN tool.schema.props |-> CleanedProp(tool.schema.props[p])]
            ELSE [p \in {} |-> [k \in {} |-> ""]],
         required |->
            IF UsableSchema(tool) /\ tool.schema.hasReq
            THEN tool.schema.req
            ELSE << >>]]

\* lines 61-94: the function declaration of one tool
FunctionDeclaration(tool) ==
    [name |-> tool.name,
     description |-> tool.description,
     parameters |->
        [type |-> "object",
         properties |->
            IF UsableSchema(tool) /\ tool.schema.hasProps
            THEN [p \in DOMAIN tool.schema.props |-> CleanedProp(tool.schema.props[p])]
            ELSE [p \in {} |-> [k \in {} |-> ""]],
         required |->
            IF UsableSchema(tool) /\ tool.schema.hasReq
            THEN tool.schema.req
            ELSE << >>]]

\* lines 58-98: one {"function_declarations": [declaration]} per tool, in order
convert_mcp_tools_to_gemini(mcp_tools) ==
    [i \in 1..Len(mcp_tools) |-> [function_declarations |-> <<FunctionDeclaration(mcp_tools[i])>>]]

\* whether the conversion of the list raises
ConvertRaises(mcp_tools) == \E i \in 1..Len(mcp_tools) : DeclarationRaises(mcp_tools[i])

(* ---------------------- execute_tool_call (100-121) ------------------- *)

\* str(x) of a number
Str(n) == <<ToString(n)>>

\* lines 109-114: the string of one content part
ContentString(content) ==
    IF content.kind = "text" THEN content.text
    ELSE IF content.kind = "data" THEN Str(content.data)
    ELSE <<"<content>">>

\* lines 105-118 without the else branch of line 117
ResultString_noSentinel(content) ==
    Join([i \in 1..Len(content) |-> ContentString(content[i])])

\* lines 105-118: the string of a result that call_tool returned
ResultString(content) ==
    IF content # << >>
    THEN Join([i \in 1..Len(content) |-> ContentString(content[i])])
    ELSE NoContent

\* execute_tool_call without the handler of line 120: a failure of the session
\* leaves the function
execute_tool_call_propagates(tool_name, outcome) ==
    IF outcome.raised
    THEN [raises |-> TRUE, value |-> EmptyStr, msg |-> outcome.msg]
    ELSE [raises |-> FALSE, value |-> ResultString(outcome.content), msg |-> EmptyStr]

\* lines 102-121: what execute_tool_call does with an outcome of call_tool,
\* which is [raised |-> TRUE, msg |-> str(e), content |-> << >>] or
\* [raised |-> FALSE, msg |-> EmptyStr, content |-> result.content]:
\* it returns value, or (raises = TRUE) lets the exception out
execute_tool_call(tool_name, outcome) ==
    IF outcome.raised
    THEN [raises |-> FALSE, value |-> ToolErrorString(tool_name, outcome.msg), msg |-> EmptyStr]
    ELSE [raises |-> FALSE, value |-> ResultString(outcome.content), msg |-> EmptyStr]

(* ------------------------ process_query (123-191) --------------------- *)

\* process_query reusing the list obtained at connect
AvailableTools_cached(listed, connected) == [i \in 1..Len(connected) |-> Descriptor(connected[i])]

\* lines 127-128: the tools of this query are the ones list_tools returned now;
\* connected is the list connect_to_server printed (lines 52-54)
AvailableTools(listed, connected) == [i \in 1..Len(listed) |-> Descriptor(listed[i])]

\* lines 135-142: the initial request
InitialRequest(q, tools) ==
    IF tools # << >>
    THEN [contents |-> q, tools |-> tools, tool_config |-> "AUTO"]
    ELSE [contents |-> q, tools |-> << >>, tool_config |-> "none"]

\* line 151 testing function_call.args instead of function_call
IsFunctionCall_args(part) == part.kind = "function_call" /\ part.args # "noargs"

\* line 151 / line 181: the branch a part takes
IsFunctionCall(part) == part.kind = "function_call"
IsText(part) == part.kind = "text" /\ part.text # EmptyStr

\* lines 157-159
Arguments(function_call) == IF function_call.args # "noargs" THEN function_call.args ELSE "{}"

\* the follow-up built without the user query
FollowUpMessages_noQuery(q, function_call, tool_name, result) ==
    << [role |-> "model", kind |-> "function_call", text |-> "",
        call |-> function_call, name |-> "", result |-> EmptyStr],
       [role |-> "user", kind |-> "function_response", text |-> "",
        call |-> [name |-> "", args |-> "noargs"], name |-> tool_name, result |-> result] >>

\* the function_response built without the tool result
FollowUpMessages_noResult(q, function_call, tool_name, result) ==
    << [role |-> "user", kind |-> "text", text |-> q,
        call |-> [name |-> "", args |-> "noargs"], name |-> "", result |-> EmptyStr],
       [role |-> "model", kind |-> "function_call", text |-> "",
        call |-> function_call, name |-> "", result |-> EmptyStr],
       [role |-> "user", kind |-> "function_response", text |-> "",
        call |-> [name |-> "", args |-> "noargs"], name |-> tool_name, result |-> EmptyStr] >>

\* lines 167-174: the follow-up context of one function call
FollowUpMessages(q, function_call, tool_name, result) ==
    << [role |-> "user", kind |-> "text", text |-> q,
        call |-> [name |-> "", args |-> "noargs"], name |-> "", result |-> EmptyStr],
       [role |-> "model", kind |-> "function_call", text |-> "",
        call |-> function_call, name |-> "", result |-> EmptyStr],
       [role |-> "user", kind |-> "function_response", text |-> "",
        call |-> [name |-> "", args |-> "noargs"], name |-> tool_name, result |-> result] >>

\* the buffer filled at the front
Buffered_front(buffer, text) == IF text # EmptyStr THEN <<text>> \o buffer ELSE buffer

\* lines 178-179 and 181-182: only a non-empty text is buffered
Buffered(buffer, text) == IF text # EmptyStr THEN Append(buffer, text) ELSE buffer

\* line 184 without the fallback
FinalAnswer_join(buffer) == Join(buffer)

\* line 184
FinalAnswer(buffer) == IF buffer # << >> THEN Join(buffer) ELSE NoResponse

\* line 187: response.text if response.text else "No response generated"
TextOrSentinel(text) == IF text # EmptyStr THEN text ELSE NoResponse

(* ------------------------------- state -------------------------------- *)

VARIABLES
    pc,                    \* position of main / chat_loop / process_query
    serverTools,           \* names the server advertises, in order
    connectTools,          \* the list connect_to_server obtained (line 53)
    query,                 \* the query being processed
    available_tools,       \* line 128
    gemini_tools,          \* line 131
    parts,                 \* line 146
    idx,                   \* position of the for loop of line 150
    final_response_parts,  \* line 148
    tool_result,           \* line 164
    answer,                \* the value process_query returned
    outcome,               \* "none", "returned" or "thrown" (to chat_loop)
    raised,                \* the handler of line 189 ran
    log,                   \* calls on the session and the model API in this query
    cleanups,              \* number of runs of cleanup (line 213)
    exitPath               \* how main left its try block: "none", "connect", "quit", "escaped"

vars == <<pc, serverTools, connectTools, query, available_tools, gemini_tools, parts,
          idx, final_response_parts, tool_result, answer, outcome, raised, log, cleanups,
          exitPath>>

NoCall == [name |-> "", args |-> "noargs"]

\* one entry of the log: k is the part, call the function call of callTool,
\* str a message, a result string or a text, request the initial request, msgs
\* the messages of a follow-up (the content list for a callTool_ok)
Event(op, k, call, str, request, msgs) ==
    [op |-> op, k |-> k, call |-> call, str |-> str, request |-> request, msgs |-> msgs]

NoRequest == [contents |-> "", tools |-> << >>, tool_config |-> "none"]

Init ==
    /\ pc = "init"
    /\ serverTools \in ServerToolLists
    /\ connectTools = << >>
    /\ query = ""
    /\ available_tools = << >>
    /\ gemini_tools = << >>
    /\ parts = << >>
    /\ idx = 0
    /\ final_response_parts = << >>
    /\ tool_result = EmptyStr
    /\ answer = EmptyStr
    /\ outcome = "none"
    /\ raised = FALSE
    /\ log = << >>
    /\ cleanups = 0
    /\ exitPath = "none"

queryVars == <<query, available_tools, gemini_tools, parts, idx, final_response_parts,
               tool_result, answer, outcome, raised, log>>

(* ------------------------------ main ---------------------------------- *)

\* lines 220-223, 33-54: connect succeeds and lists the tools once
Connect ==
    /\ pc = "init"
    /\ pc' = "idle"
    /\ connectTools' = serverTools
    /\ UNCHANGED <<serverTools, queryVars, cleanups, exitPath>>

\* main calling cleanup only after chat_loop has returned
LeaveTry_noFinally(path) ==
    /\ pc' = IF path = "quit" THEN "cleanup" ELSE "exit"
    /\ exitPath' = path

\* lines 221-225: the try block of main is left, normally or by an exception;
\* the finally clause is next
LeaveTry(path) ==
    /\ pc' = "cleanup"
    /\ exitPath' = path

\* lines 35-36, 45-52: connect_to_server raises (no .py/.js path, the
\* transport or session.initialize fails)
ConnectFails ==
    /\ pc = "init"
    /\ LeaveTry("connect")
    /\ UNCHANGED <<serverTools, connectTools, queryVars, cleanups>>

\* lines 200-203: 'quit' is read, chat_loop returns
Quit ==
    /\ pc = "idle"
    /\ \E line \in InputLines : IsQuit(line)
    /\ LeaveTry("quit")
    /\ UNCHANGED <<serverTools, connectTools, queryVars, cleanups>>

\* positions of chat_loop and of process_query
InChatLoop == pc \in {"idle", "list_wait", "gen_wait", "loop", "tool_wait",
                      "followup_wait", "print"}

\* line 208 catches Exception only: a KeyboardInterrupt or a cancellation
\* leaves chat_loop at any of its positions and unwinds its frames
Interrupt ==
    /\ InChatLoop
    /\ LeaveTry("escaped")
    /\ query' = ""
    /\ available_tools' = << >>
    /\ gemini_tools' = << >>
    /\ parts' = << >>
    /\ idx' = 0
    /\ final_response_parts' = << >>
    /\ tool_result' = EmptyStr
    /\ answer' = EmptyStr
    /\ outcome' = "none"
    /\ raised' = FALSE
    /\ log' = << >>
    /\ UNCHANGED <<serverTools, connectTools, cleanups>>

\* lines 224-225, 211-213
Cleanup ==
    /\ pc = "cleanup"
    /\ pc' = "exit"
    /\ cleanups' = cleanups + 1
    /\ UNCHANGED <<serverTools, connectTools, queryVars, exitPath>>

\* the server changes its tool set between two queries
ServerChange ==
    /\ pc = "idle"
    /\ serverTools' \in ServerToolLists \ {serverTools}
    /\ UNCHANGED <<pc, connectTools, queryVars, cleanups, exitPath>>

(* ---------------------------- chat_loop ------------------------------- *)

\* lines 200-205 and 127: a query is read and process_query calls list_tools
ReadQuery ==
    /\ pc = "idle"
    /\ \E line \in InputLines :
        /\ ~IsQuit(line)
        /\ query' = StrippedQuery(line)
        /\ log' = <<Event("listTools", 0, NoCall, EmptyStr, NoRequest, << >>)>>
    /\ pc' = "list_wait"
    /\ UNCHANGED <<serverTools, connectTools, available_tools, gemini_tools, parts, idx,
                   final_response_parts, tool_result, answer, outcome, raised, cleanups, exitPath>>

\* line 200: input() raises (end of input); line 208 catches it
ReadFails ==
    /\ pc = "idle"
    /\ outcome' = "thrown"
    /\ pc' = "print"
    /\ log' = <<Event("input_raise", 0, NoCall, EmptyStr, NoRequest, << >>)>>
    /\ UNCHANGED <<serverTools, connectTools, query, available_tools, gemini_tools, parts, idx,
                   final_response_parts, tool_result, answer, raised, cleanups, exitPath>>

\* lines 206 and 209: the answer or the error is printed, the loop goes on
ShowResponse ==
    /\ pc = "print"
    /\ pc' = "idle"
    /\ query' = ""
    /\ available_tools' = << >>
    /\ gemini_tools' = << >>
    /\ parts' = << >>
    /\ idx' = 0
    /\ final_response_parts' = << >>
    /\ tool_result' = EmptyStr
    /\ answer' = EmptyStr
    /\ outcome' = "none"
    /\ raised' = FALSE
    /\ log' = << >>
    /\ UNCHANGED <<serverTools, connectTools, cleanups, exitPath>>

(* --------------------------- process_query ---------------------------- *)

Logged(e) == log' = Append(log, e)

\* chat_loop without the handler of line 208
Thrown_escapes ==
    /\ outcome' = "thrown"
    /\ pc' = "cleanup"

\* the exception leaves process_query (list_tools and the conversion are
\* outside the try of line 133); chat_loop catches it at line 208
Thrown ==
    /\ outcome' = "thrown"
    /\ pc' = "print"

\* the handler of line 189 returning the buffered text with the error
Caught_keepsText(msg) ==
    /\ raised' = TRUE
    /\ answer' = Join(Append(final_response_parts, ErrorString(msg)))
    /\ outcome' = "returned"
    /\ pc' = "print"

\* process_query without the handler of line 189
Caught_reraised(msg) ==
    /\ raised' = TRUE
    /\ answer' = answer
    /\ outcome' = "thrown"
    /\ pc' = "print"

\* lines 189-191
Caught(msg) ==
    /\ raised' = TRUE
    /\ answer' = ErrorString(msg)
    /\ outcome' = "returned"
    /\ pc' = "print"

\* line 127: list_tools raises
ListToolsRaises ==
    /\ pc = "list_wait"
    /\ Thrown
    /\ Logged(Event("listTools_raise", 0, NoCall, EmptyStr, NoRequest, << >>))
    /\ UNCHANGED <<serverTools, connectTools, query, available_tools, gemini_tools, parts,
                   idx, final_response_parts, tool_result, answer, raised, cleanups, exitPath>>

\* lines 127-142: list_tools returns, the tools are converted and the initial
\* request is issued
ListToolsReturns ==
    /\ pc = "list_wait"
    /\ LET tools == AvailableTools(serverTools, connectTools)
       IN  /\ available_tools' = tools
           /\ IF ConvertRaises(tools)
              THEN /\ Thrown
                   /\ Logged(Event("listTools_ret", 0, NoCall, EmptyStr, NoRequest, << >>))
                   /\ UNCHANGED gemini_tools
              ELSE /\ gemini_tools' = convert_mcp_tools_to_gemini(tools)
                   /\ log' = log \o
                        << Event("listTools_ret", 0, NoCall, EmptyStr, NoRequest, << >>),
                           Event("generate", 0, NoCall, EmptyStr,
                                 InitialRequest(query, gemini_tools'), << >>) >>
                   /\ pc' = "gen_wait"
                   /\ UNCHANGED outcome
    /\ UNCHANGED <<serverTools, connectTools, query, parts, idx, final_response_parts,
                   tool_result, answer, raised, cleanups, exitPath>>

\* lines 136/142: the initial request raises
GenerateRaises ==
    /\ pc = "gen_wait"
    /\ \E msg \in ExcMsgs :
        /\ Caught(msg)
        /\ Logged(Event("generate_raise", 0, NoCall, msg, NoRequest, << >>))
    /\ UNCHANGED <<serverTools, connectTools, query, available_tools, gemini_tools, parts,
                   idx, final_response_parts, tool_result, cleanups, exitPath>>

\* lines 145-148: the initial response has parts
GenerateReturns ==
    /\ pc = "gen_wait"
    /\ \E p \in PartLists(MaxParts) \ {<< >>} : parts' = p
    /\ idx' = 1
    /\ final_response_parts' = << >>
    /\ pc' = "loop"
    /\ Logged(Event("generate_ret", 0, NoCall, EmptyStr, NoRequest, << >>))
    /\ UNCHANGED <<serverTools, connectTools, query, available_tools, gemini_tools,
                   tool_result, answer, outcome, raised, cleanups, exitPath>>

\* lines 145, 187: the initial response has no candidates or no parts.  Line
\* 187 reads response.text: the accessor of google.generativeai raises
\* ValueError for a response without parts (caught at line 189); a response
\* object whose text is empty reaches the sentinel
GenerateReturnsEmpty ==
    /\ pc = "gen_wait"
    /\ parts' = << >>
    /\ \E textRaises \in BOOLEAN :
          IF textRaises
          THEN /\ Caught(NoTextMsg)
               /\ log' = log \o
                    << Event("generate_ret", 0, NoCall, EmptyStr, NoRequest, << >>),
                       Event("generate_notext", 0, NoCall, NoTextMsg, NoRequest, << >>) >>
          ELSE /\ answer' = TextOrSentinel(EmptyStr)
               /\ outcome' = "returned"
               /\ pc' = "print"
               /\ Logged(Event("generate_ret", 0, NoCall, EmptyStr, NoRequest, << >>))
               /\ UNCHANGED raised
    /\ UNCHANGED <<serverTools, connectTools, query, available_tools, gemini_tools,
                   idx, final_response_parts, tool_result, cleanups, exitPath>>

\* call_tool started and not awaited: the loop goes on to the next part
HandleFunctionCall_noAwait ==
    /\ pc = "loop"
    /\ idx <= Len(parts)
    /\ IsFunctionCall(parts[idx])
    /\ idx' = idx + 1
    /\ Logged(Event("callTool", idx,
                    [name |-> parts[idx].name, args |-> Arguments(parts[idx])],
                    EmptyStr, NoRequest, << >>))
    /\ UNCHANGED <<pc, serverTools, connectTools, query, available_tools, gemini_tools, parts,
                   final_response_parts, tool_result, answer, outcome, raised, cleanups,
                   exitPath>>

\* lines 150-164: the next part is a function call; call_tool is issued
HandleFunctionCall ==
    /\ pc = "loop"
    /\ idx <= Len(parts)
    /\ IsFunctionCall(parts[idx])
    /\ pc' = "tool_wait"
    /\ Logged(Event("callTool", idx,
                    [name |-> parts[idx].name, args |-> Arguments(parts[idx])],
                    EmptyStr, NoRequest, << >>))
    /\ UNCHANGED <<serverTools, connectTools, query, available_tools, gemini_tools, parts,
                   idx, final_response_parts, tool_result, answer, outcome, raised, cleanups, exitPath>>

\* lines 181-182: the next part is a text part
HandleText ==
    /\ pc = "loop"
    /\ idx <= Len(parts)
    /\ ~IsFunctionCall(parts[idx])
    /\ IsText(parts[idx])
    /\ final_response_parts' = Buffered(final_response_parts, parts[idx].text)
    /\ idx' = idx + 1
    /\ UNCHANGED <<pc, serverTools, connectTools, query, available_tools, gemini_tools, parts,
                   tool_result, answer, outcome, raised, log, cleanups, exitPath>>

\* lines 151, 181: a part that is neither is passed over
SkipPart ==
    /\ pc = "loop"
    /\ idx <= Len(parts)
    /\ ~IsFunctionCall(parts[idx])
    /\ ~IsText(parts[idx])
    /\ idx' = idx + 1
    /\ UNCHANGED <<pc, serverTools, connectTools, query, available_tools, gemini_tools, parts,
                   final_response_parts, tool_result, answer, outcome, raised, log, cleanups, exitPath>>

\* line 184: the loop is over
ReturnAnswer ==
    /\ pc = "loop"
    /\ idx > Len(parts)
    /\ answer' = FinalAnswer(final_response_parts)
    /\ outcome' = "returned"
    /\ pc' = "print"
    /\ UNCHANGED <<serverTools, connectTools, query, available_tools, gemini_tools, parts,
                   idx, final_response_parts, tool_result, raised, log, cleanups, exitPath>>

\* the outcomes of session.call_tool(name, args): the session rejects a name
\* the server does not serve (ToolNotFound); a served tool fails or returns
CallToolOutcomes(name) ==
    IF name \notin Range(serverTools)
    THEN {[raised |-> TRUE, msg |-> ToolNotFound, content |-> << >>]}
    ELSE [raised : {TRUE}, msg : ExcMsgs, content : {<< >>}]
         \cup [raised : {FALSE}, msg : {EmptyStr}, content : ContentValues]

\* the follow-up request issued but not waited for: the loop goes on at once
AfterCallTool_noWait(o) ==
    LET value == execute_tool_call(parts[idx].name, o).value
    IN  /\ tool_result' = value
        /\ log' = log \o
             << Event(IF o.raised THEN "callTool_fail" ELSE "callTool_ok", idx, NoCall,
                      o.msg, NoRequest, o.content),
                Event("callTool_ret", idx, NoCall, value, NoRequest, << >>),
                Event("followup", idx, NoCall, EmptyStr, NoRequest,
                      FollowUpMessages(query,
                                       [name |-> parts[idx].name, args |-> parts[idx].args],
                                       parts[idx].name, value)) >>
        /\ idx' = idx + 1
        /\ pc' = "loop"
        /\ UNCHANGED <<serverTools, connectTools, query, available_tools, gemini_tools,
                       parts, final_response_parts, answer, outcome, raised, cleanups, exitPath>>

\* lines 103-177 once call_tool is over with outcome o: execute_tool_call
\* returns its string and the follow-up request of this part is issued
AfterCallTool(o) ==
    LET r == execute_tool_call(parts[idx].name, o)
        done == Event(IF o.raised THEN "callTool_fail" ELSE "callTool_ok", idx, NoCall,
                      o.msg, NoRequest, o.content)
    IN  /\ IF r.raises
           THEN /\ Caught(r.msg)
                /\ log' = Append(log, done)
                /\ UNCHANGED tool_result
           ELSE /\ tool_result' = r.value
                /\ log' = log \o
                     << done,
                        Event("callTool_ret", idx, NoCall, r.value, NoRequest, << >>),
                        Event("followup", idx, NoCall, EmptyStr, NoRequest,
                              FollowUpMessages(query,
                                               [name |-> parts[idx].name,
                                                args |-> parts[idx].args],
                                               parts[idx].name, r.value)) >>
                /\ pc' = "followup_wait"
                /\ UNCHANGED <<answer, outcome, raised>>
        /\ UNCHANGED <<serverTools, connectTools, query, available_tools, gemini_tools,
                       parts, idx, final_response_parts, cleanups, exitPath>>

\* line 103 raises
CallToolRaises ==
    /\ pc = "tool_wait"
    /\ \E o \in CallToolOutcomes(parts[idx].name) : o.raised /\ AfterCallTool(o)

\* line 103 returns a result
CallToolReturns ==
    /\ pc = "tool_wait"
    /\ \E o \in CallToolOutcomes(parts[idx].name) : ~o.raised /\ AfterCallTool(o)

\* line 177: the follow-up request raises
FollowUpRaises ==
    /\ pc = "followup_wait"
    /\ \E msg \in ExcMsgs :
        /\ Caught(msg)
        /\ Logged(Event("followup_raise", idx, NoCall, msg, NoRequest, << >>))
    /\ UNCHANGED <<serverTools, connectTools, query, available_tools, gemini_tools, parts,
                   idx, final_response_parts, tool_result, cleanups, exitPath>>

\* a function call of the follow-up response sends the loop back to the part
FollowUpTextRaises_again ==
    /\ pc = "followup_wait"
    /\ pc' = "loop"
    /\ \E held \in [name : ToolNames, args : {"noargs"}] :
          Logged(Event("followup_notext", idx, held, NoTextMsg, NoRequest, << >>))
    /\ UNCHANGED <<serverTools, connectTools, query, available_tools, gemini_tools, parts,
                   idx, final_response_parts, tool_result, answer, outcome, raised, cleanups,
                   exitPath>>

\* line 178: the follow-up response holds no part, or a function call instead
\* of text, and final_response.text raises ValueError; nothing else of the
\* follow-up response is read
FollowUpTextRaises ==
    /\ pc = "followup_wait"
    /\ Caught(NoTextMsg)
    /\ \E held \in {NoCall} \cup [name : ToolNames, args : {"noargs"}] :
          Logged(Event("followup_notext", idx, held, NoTextMsg, NoRequest, << >>))
    /\ UNCHANGED <<serverTools, connectTools, query, available_tools, gemini_tools, parts,
                   idx, final_response_parts, tool_result, cleanups, exitPath>>

\* lines 177-179: the follow-up returns a text, possibly empty
FollowUpReturns ==
    /\ pc = "followup_wait"
    /\ \E t \in FollowUpTexts :
        /\ final_response_parts' = Buffered(final_response_parts, t)
        /\ Logged(Event("followup_ret", idx, NoCall, t, NoRequest, << >>))
    /\ idx' = idx + 1
    /\ pc' = "loop"
    /\ UNCHANGED <<serverTools, connectTools, query, available_tools, gemini_tools, parts,
                   tool_result, answer, outcome, raised, cleanups, exitPath>>

Next ==
    \/ Connect
    \/ ConnectFails
    \/ Quit
    \/ Cleanup
    \/ Interrupt
    \/ ReadFails
    \/ ServerChange
    \/ ReadQuery
    \/ ShowResponse
    \/ ListToolsRaises
    \/ ListToolsReturns
    \/ GenerateRaises
    \/ GenerateReturns
    \/ GenerateReturnsEmpty
    \/ HandleFunctionCall
    \/ HandleText
    \/ SkipPart
    \/ ReturnAnswer
    \/ CallToolRaises
    \/ CallToolReturns
    \/ FollowUpRaises
    \/ FollowUpTextRaises
    \/ FollowUpReturns

Spec == Init /\ [][Next]_vars

(* ------------------ the schema translator on its own ------------------ *)

\* a tool list is given to convert_mcp_tools_to_gemini
InitTranslator ==
    /\ pc = "translate"
    /\ available_tools \in ToolLists(MaxToolList)
    /\ serverTools = << >>
    /\ connectTools = << >>
    /\ query = ""
    /\ gemini_tools = << >>
    /\ parts = << >>
    /\ idx = 0
    /\ final_response_parts = << >>
    /\ tool_result = EmptyStr
    /\ answer = EmptyStr
    /\ outcome = "none"
    /\ raised = FALSE
    /\ log = << >>
    /\ cleanups = 0
    /\ exitPath = "none"

\* lines 56-98: the list is converted, or the conversion raises
Translate ==
    /\ pc = "translate"
    /\ pc' = "translated"
    /\ IF ConvertRaises(available_tools)
       THEN /\ outcome' = "thrown"
            /\ UNCHANGED gemini_tools
       ELSE /\ outcome' = "returned"
            /\ gemini_tools' = convert_mcp_tools_to_gemini(available_tools)
    /\ UNCHANGED <<serverTools, connectTools, query, available_tools, parts, idx,
                   final_response_parts, tool_result, answer, raised, log, cleanups, exitPath>>

NextTranslator == Translate

SpecTranslator == InitTranslator /\ [][NextTranslator]_vars

TypeOK ==
    /\ pc \in {"init", "idle", "list_wait", "gen_wait", "loop", "tool_wait",
               "followup_wait", "print", "cleanup", "exit"}
    /\ idx \in 0..(MaxParts + 1)
    /\ cleanups \in 0..1
    /\ exitPath \in {"none", "connect", "quit", "escaped"}

(* ------------------------------ properties ---------------------------- *)

\* positions of the log holding an event op of part k
At(op, k) == {i \in 1..Len(log) : log[i].op = op /\ log[i].k = k}

\* positions of the log holding an event op
AtAny(op) == {i \in 1..Len(log) : log[i].op = op}

\* the function-call parts of the initial response
CallParts == {k \in 1..Len(parts) : parts[k].kind = "function_call"}

\* process_query has returned to chat_loop without entering its handler
ReturnedClean == pc = "print" /\ outcome = "returned" /\ ~raised

\* the function_response message of a follow-up request
FunctionResponse(e) == e.msgs[3]

\* C1: when the initial response holds N function-call parts and nothing was
\* raised in the query, there are exactly N calls of callTool and exactly N
\* follow-up requests, one of each per function-call part, the follow-up of a
\* part issued after the tool execution of that part is over, and a follow-up
\* carries the result of exactly one call.
C1_OneFollowUpPerCall ==
    (ReturnedClean /\ parts # << >>) =>
        /\ Cardinality(AtAny("callTool")) = Cardinality(CallParts)
        /\ Cardinality(AtAny("followup")) = Cardinality(CallParts)
        /\ \A k \in CallParts :
             /\ Cardinality(At("callTool", k)) = 1
             /\ Cardinality(At("callTool_ret", k)) = 1
             /\ Cardinality(At("followup", k)) = 1
             /\ \A i \in At("callTool", k), j \in At("callTool_ret", k), l \in At("followup", k) :
                    i < j /\ j < l
             /\ \A l \in At("followup", k) :
                    /\ Len(log[l].msgs) = 3
                    /\ log[l].msgs[2].call.name = parts[k].name
                    /\ FunctionResponse(log[l]).name = parts[k].name

C1_Witness ==
    /\ ReturnedClean
    /\ Len(parts) = 2
    /\ CallParts = {1, 2}
    /\ Cardinality(AtAny("followup")) = 2

\* C2: the tool execution and the follow-up of an earlier function-call part
\* are both over before the tool execution of a later part begins; the calls of
\* one response run one at a time in the order of the parts.
C2_OneAtATimeInOrder ==
    \A k \in CallParts : \A i \in At("callTool", k) :
        /\ \A j \in CallParts :
             j < k => /\ \E a \in At("callTool", j) : a < i
                      /\ \E b \in At("callTool_ret", j) : b < i
                      /\ \E c \in At("followup_ret", j) : c < i
        /\ \A j \in CallParts : \A a \in At("callTool", j) : (a < i) => (j < k)

C2_Witness ==
    /\ Len(parts) = 2
    /\ CallParts = {1, 2}
    /\ At("callTool", 2) # {}
    /\ pc = "tool_wait"

\* C3: a failure of callTool never leaves execute_tool_call: its result is
\* 'Error executing tool <name>: <message>', the follow-up of that part is
\* issued with this text as the function_response, and the query is not ended
\* by it: the handler of process_query is never entered because of a tool
\* failure and the remaining parts are handled.
C3_ToolFailureIsData ==
    /\ \A i \in AtAny("callTool_fail") :
         LET k == log[i].k
             err == ToolErrorString(parts[k].name, log[i].str)
         IN  /\ Len(log) >= i + 2
             /\ log[i + 1].op = "callTool_ret" /\ log[i + 1].k = k /\ log[i + 1].str = err
             /\ log[i + 2].op = "followup" /\ log[i + 2].k = k
             /\ FunctionResponse(log[i + 2]).result = err
             /\ FunctionResponse(log[i + 2]).name = parts[k].name
    /\ (raised /\ log # << >>) => log[Len(log)].op \notin {"callTool_fail", "callTool_ret"}
    /\ ReturnedClean => \A k \in CallParts : At("callTool", k) # {}

C3_Witness ==
    /\ ReturnedClean
    /\ Len(parts) = 2
    /\ At("callTool_fail", 1) # {}
    /\ At("callTool", 2) # {}

\* C4: an exception of a model request (initial or follow-up) is caught in
\* process_query, which returns 'Error: ' followed by the message; chat_loop
\* then goes back to reading the next query.
C4_ModelErrorIsAnswer ==
    \A i \in AtAny("generate_raise") \cup AtAny("followup_raise") :
        /\ pc = "print"
        /\ outcome = "returned"
        /\ answer = ErrorString(log[i].str)
        /\ ENABLED ShowResponse

C4_Witness ==
    /\ AtAny("followup_raise") # {}
    /\ pc = "print"
    /\ final_response_parts # << >>

\* C5: for an empty tool list the initial request carries no tool
\* configuration and no callTool is attempted in that query, whatever parts
\* the model response holds.
C5_NoToolsNoCall ==
    (available_tools = << >> /\ AtAny("generate") # {}) =>
        /\ \A i \in AtAny("generate") :
              log[i].request.tools = << >> /\ log[i].request.tool_config = "none"
        /\ AtAny("callTool") = {}

C7_EmptyResponseSentinel ==
    (pc = "print" /\ outcome = "returned" /\ parts = << >> /\ AtAny("generate_ret") # {}) =>
        answer = NoResponse

\* C8: process_query never returns the empty string; with an empty buffer
\* after the loop it returns 'No response generated'.
C8_NeverEmptyAnswer ==
    (pc = "print" /\ outcome = "returned") =>
        /\ answer # EmptyStr
        /\ (~raised /\ final_response_parts = << >>) => answer = NoResponse

C8_Witness ==
    /\ ReturnedClean
    /\ CallParts # {}
    /\ final_response_parts = << >>
    /\ answer = NoResponse

\* C9: a query calls listTools exactly once, before the initial request, and
\* the tools of that request are the conversion of what the server advertises
\* at that call, not of what it advertised at connect or in an earlier query.
C9_ToolsListedPerQuery ==
    \A i \in AtAny("generate") :
        /\ AtAny("listTools") = {1}
        /\ AtAny("listTools_ret") = {i - 1}
        /\ AtAny("generate") = {i}
        /\ log[i].request.tools =
             convert_mcp_tools_to_gemini([t \in 1..Len(serverTools) |-> Descriptor(serverTools[t])])
        /\ log[i].request.contents = query

C9_Witness ==
    /\ AtAny("generate") # {}
    /\ serverTools # connectTools
    /\ serverTools # << >>

\* the text of the follow-up response of part k
FollowUpText(k) == log[CHOOSE i \in At("followup_ret", k) : TRUE].str

\* what the parts 1..n contribute: the text of a text part, the follow-up text
\* of a function-call part
RECURSIVE Fragments(_)
Fragments(n) ==
    IF n = 0 THEN << >>
    ELSE IF parts[n].kind = "function_call" THEN Append(Fragments(n - 1), FollowUpText(n))
    ELSE IF parts[n].kind = "text" THEN Append(Fragments(n - 1), parts[n].text)
    ELSE Fragments(n - 1)

NonEmpty(str) == str # EmptyStr

\* C10 as stated: without an exception the answer is the newline-join of the
\* fragments of the parts, in the order of the parts.
C10_AnswerIsJoin ==
    (ReturnedClean /\ parts # << >>) => answer = Join(Fragments(Len(parts)))

\* C10 amended: without an exception the answer is the newline-join of the
\* non-empty fragments of the parts, in the order of the parts, and
\* 'No response generated' when no fragment is non-empty; it is assembled
\* after every function-call part has been executed.
C10_AnswerIsJoinOfNonEmpty ==
    (ReturnedClean /\ parts # << >>) =>
        LET kept == SelectSeq(Fragments(Len(parts)), NonEmpty)
        IN  /\ answer = (IF kept = << >> THEN NoResponse ELSE Join(kept))
            /\ \A k \in CallParts : At("callTool_ret", k) # {} /\ At("followup_ret", k) # {}

C10_Witness ==
    /\ ReturnedClean
    /\ Len(parts) = 2
    /\ parts[1].kind = "text"
    /\ parts[2].kind = "function_call"
    /\ answer = <<"p", NL, "f">>

\* C11: every follow-up request carries exactly three messages: the user
\* query, the function call of its part, and a user message with the
\* function_response keyed by the tool name of the part and holding the tool
\* result of the part; no call or result of another part is in it.
C11_ThreeMessageFollowUp ==
    \A l \in AtAny("followup") :
        LET k == log[l].k
            msgs == log[l].msgs
        IN  /\ Len(msgs) = 3
            /\ msgs[1].role = "user" /\ msgs[1].kind = "text" /\ msgs[1].text = query
            /\ msgs[2].role = "model" /\ msgs[2].kind = "function_call"
            /\ msgs[2].call = [name |-> parts[k].name, args |-> parts[k].args]
            /\ msgs[3].role = "user" /\ msgs[3].kind = "function_response"
            /\ msgs[3].name = parts[k].name
            /\ log[l - 1].op = "callTool_ret" /\ log[l - 1].k = k
            /\ msgs[3].result = log[l - 1].str

C11_Witness ==
    /\ Cardinality(AtAny("followup")) = 2
    /\ parts[1].name # parts[2].name
    /\ \E i \in At("callTool_ret", 1), j \in At("callTool_ret", 2) : log[i].str # log[j].str

\* C12: once the client exists, cleanup runs exactly once when main shuts
\* down, whether chat_loop returned on 'quit', connect_to_server failed or an
\* error escaped chat_loop.
C12_CleanupOnce ==
    /\ cleanups <= 1
    /\ (pc = "exit") => (cleanups = 1 /\ exitPath \in {"quit", "connect", "escaped"})
    /\ (exitPath # "none") => (pc \in {"cleanup", "exit"})
    /\ (pc = "cleanup") => (cleanups = 0 /\ ENABLED Cleanup)
    /\ (cleanups = 1) => (pc = "exit")

C12_Witness ==
    /\ pc = "exit"
    /\ exitPath = "escaped"
    /\ cleanups = 1

\* the failures of one query: of input, listTools, the conversion, a tool
\* call, a model request or the reading of its text
FailureOps == {"input_raise", "listTools_raise", "callTool_fail", "generate_raise",
               "generate_notext", "followup_raise", "followup_notext"}

FailureSeen ==
    \/ \E i \in 1..Len(log) : log[i].op \in FailureOps
    \/ outcome = "thrown"
    \/ raised

\* C13: after a successful connect no failure of reading or processing a
\* query ends chat_loop or the process: the loop goes on to the next query and
\* is left, failures apart, only by a line that is 'quit' after strip and
\* lower; a failure of connect ends the process before any query is read.
C13_FailuresAreLocal ==
    /\ FailureSeen => (InChatLoop /\ exitPath = "none")
    /\ (outcome = "thrown") => (pc = "print" /\ ENABLED ShowResponse)
    /\ (pc = "idle") => (ENABLED ReadQuery /\ log = << >>)
    /\ (exitPath = "quit") => (\E line \in InputLines : Lower(Strip(line)) = "quit")
    /\ (query # "") => (Lower(query) # "quit" /\ \E line \in InputLines : Strip(line) = query)
    /\ (exitPath = "connect") => (connectTools = << >> /\ log = << >>)
    /\ (pc \in {"cleanup", "exit"}) => exitPath \in {"quit", "connect", "escaped"}

C13_Witness ==
    /\ pc = "print"
    /\ outcome = "thrown"
    /\ available_tools # << >>
    /\ AtAny("listTools_ret") # {}

\* number of log entries whose op is in ops
Count(ops) == Cardinality({i \in 1..Len(log) : log[i].op \in ops})

\* operations begun and not over
SessionInFlight ==
    Count({"listTools", "callTool"})
    - Count({"listTools_ret", "listTools_raise", "callTool_ok", "callTool_fail"})
ModelInFlight ==
    Count({"generate", "followup"})
    - Count({"generate_ret", "generate_raise", "followup_ret", "followup_raise",
             "followup_notext"})

\* C14: at most one operation is in flight on the tool session, no model
\* request is in flight together with a session operation, and a query is
\* read only when nothing of an earlier query is in flight.
C14_OneOperationInFlight ==
    /\ SessionInFlight \in {0, 1}
    /\ ModelInFlight \in {0, 1}
    /\ SessionInFlight + ModelInFlight <= 1
    /\ (pc \in {"list_wait", "tool_wait"}) <=> (SessionInFlight = 1)
    /\ (pc \in {"gen_wait", "followup_wait"}) <=> (ModelInFlight = 1)
    /\ (ENABLED ReadQuery) => (SessionInFlight = 0 /\ ModelInFlight = 0 /\ log = << >>)

C14_Witness ==
    /\ pc = "tool_wait"
    /\ SessionInFlight = 1
    /\ At("followup_ret", 1) # {}
    /\ At("callTool", 2) # {}

\* the string of one content part: its text, else its data as a string, else
\* the part as a string
PartString(c) ==
    IF c.kind = "text" THEN c.text
    ELSE IF c.kind = "data" THEN <<ToString(c.data)>>
    ELSE <<"<content>">>

\* C18: when callTool succeeds, execute_tool_call returns the newline-join, in
\* order, of one string per content part, and the fixed 'Tool executed
\* successfully but returned no content' for a result without content parts.
C18_ResultReduction ==
    \A i \in AtAny("callTool_ok") :
        LET content == log[i].msgs
        IN  /\ Len(log) > i
            /\ log[i + 1].op = "callTool_ret"
            /\ log[i + 1].str =
                 (IF Len(content) = 0 THEN NoContent
                  ELSE Join([n \in 1..Len(content) |-> PartString(content[n])]))

C18_Witness ==
    /\ \E i \in AtAny("callTool_ok") :
          /\ Len(log[i].msgs) = 3
          /\ log[i + 1].str = <<"7", NL, "<content>", NL, "5">>
    /\ \E i \in AtAny("callTool_ok") : log[i].msgs = << >> /\ log[i + 1].str = NoContent

\* C19: when the follow-up request of part k raises, process_query returns
\* only 'Error: <message>': the text buffered for the parts before k is not in
\* the answer, no later part is executed or read, and the tools of the
\* function-call parts up to k have been executed.
C19_FollowUpErrorDiscardsAll ==
    \A i \in AtAny("followup_raise") :
        LET k == log[i].k
        IN  /\ i = Len(log)
            /\ pc = "print" /\ outcome = "returned"
            /\ answer = ErrorString(log[i].str)
            /\ idx = k
            /\ \A j \in CallParts : (j > k) => (At("callTool", j) = {})
            /\ \A j \in CallParts :
                 (j <= k) => (At("callTool", j) # {} /\ At("callTool_ret", j) # {})

C19_Witness ==
    /\ At("followup_raise", 2) # {}
    /\ parts[1].kind = "text"
    /\ final_response_parts = <<parts[1].text>>
    /\ answer = ErrorString(<<"boom">>)

\* what is left of a query: the parts not yet handled and the steps of the
\* part in hand
Remaining ==
    IF pc = "list_wait" THEN 4 * (MaxParts + 2) + 2
    ELSE IF pc = "gen_wait" THEN 4 * (MaxParts + 2) + 1
    ELSE IF pc = "loop" THEN 4 * (Len(parts) + 1 - idx) + 3
    ELSE IF pc = "tool_wait" THEN 4 * (Len(parts) + 1 - idx) + 2
    ELSE IF pc = "followup_wait" THEN 4 * (Len(parts) + 1 - idx) + 1
    ELSE 0

InQuery == pc \in {"list_wait", "gen_wait", "loop", "tool_wait", "followup_wait"}

\* C20: only the function-call parts of the initial response are executed: a
\* query makes at most N callTool calls and at most 1 + N model requests, a
\* follow-up response that holds a function call starts neither, and
\* process_query terminates when its external calls return: every step of a
\* query leaves less to do and a query is never stuck.
C20_OneLevelDeep ==
    /\ [](/\ Count({"callTool"}) <= Cardinality(CallParts)
          /\ Count({"generate", "followup"}) <= 1 + Cardinality(CallParts)
          /\ \A k \in CallParts : Cardinality(At("callTool", k)) <= 1
          /\ \A i \in AtAny("followup_notext") : i = Len(log) /\ pc = "print"
          /\ InQuery => ENABLED (Next /\ ~Interrupt))
    /\ [][InQuery => (Remaining' < Remaining)]_vars

C20_Witness ==
    /\ \E i \in AtAny("followup_notext") : log[i].call.name \in ToolNames
    /\ pc = "print"
    /\ Count({"callTool"}) = 1
    /\ Len(parts) = 2

\* C15: convert_mcp_tools_to_gemini is total: it returns a declaration list
\* for every list of tool descriptors, malformed input schemas included.
C15_TranslationTotal ==
    (pc = "translated") => (outcome = "returned" /\ Len(gemini_tools) = Len(available_tools))

\* the declaration made of the i-th tool
Declared(i) == gemini_tools[i].function_declarations[1]

\* C16: every property of an input schema has an entry under its name in the
\* declaration, whose keys are those of type, description and enum that the
\* source property holds, with the source values; other keys are dropped and
\* a property with none of the three is mapped to an empty object.
C16_PropertyCleaning ==
    (pc = "translated" /\ outcome = "returned") =>
        \A i \in 1..Len(available_tools) :
            LET schema == available_tools[i].schema
                out == Declared(i).parameters.properties
            IN  (schema.kind = "dict" /\ schema.hasProps /\ schema.propsIsDict) =>
                    /\ DOMAIN out = DOMAIN schema.props
                    /\ \A p \in DOMAIN schema.props :
                         LET src == schema.props[p].fields
                         IN  /\ DOMAIN out[p] = (DOMAIN src) \cap {"type", "description", "enum"}
                             /\ \A k \in DOMAIN out[p] : out[p][k] = src[k]

C16_Witness ==
    /\ pc = "translated"
    /\ outcome = "returned"
    /\ Len(available_tools) = 2
    /\ available_tools[1].schema.hasProps
    /\ DOMAIN available_tools[1].schema.props = {"a"}
    /\ DOMAIN available_tools[1].schema.props["a"].fields = {"type", "title"}
    /\ DOMAIN Declared(1).parameters.properties["a"] = {"type"}
    /\ available_tools[2].schema.hasProps
    /\ DOMAIN available_tools[2].schema.props = {"a"}
    /\ DOMAIN available_tools[2].schema.props["a"].fields = {"title"}
    /\ DOMAIN Declared(2).parameters.properties["a"] = {}

\* C17: a tool descriptor without input schema (absent, None or empty) gives a
\* declaration with the name and the description of the tool, parameters of
\* type 'object', no properties and an empty required list.
C17_NoSchemaDeclaration ==
    (pc = "translated" /\ outcome = "returned") =>
        \A i \in 1..Len(available_tools) :
            (available_tools[i].schema.kind \in {"absent", "none", "empty"}) =>
                /\ Declared(i).name = available_tools[i].name
                /\ Declared(i).description = available_tools[i].description
                /\ Declared(i).parameters.type = "object"
                /\ DOMAIN Declared(i).parameters.properties = {}
                /\ Declared(i).parameters.required = << >>

C17_Witness ==
    /\ pc = "translated"
    /\ outcome = "returned"
    /\ Len(available_tools) = 2
    /\ available_tools[1].schema.kind = "absent"
    /\ available_tools[2].schema.kind = "empty"
    /\ Len(gemini_tools) = 2

====
